---- MODULE Spec2Model ----
(***************************************************************************)
(* Model of backend/services/extractors/pdfTableExtractor.py: the command  *)
(* line entry point (__main__) and extract_tables(pdf_path).               *)
(*                                                                         *)
(* A Python string is a sequence of one-character strings over Chars; the  *)
(* absence marker None is a value that is no string over Chars.  The       *)
(* document is the environment: what pdfplumber.open, len(pdf.pages) and   *)
(* page.extract_tables() return (or raise) is chosen when the code calls   *)
(* them.                                                                   *)
(***************************************************************************)
EXTENDS Integers, Sequences, FiniteSets, TLC

VARIABLES
    pc,         \* position of the script
    argv,       \* sys.argv
    handle,     \* the pdfplumber document handle: "none", "open", "closed"
    closes,     \* number of times the handle's __exit__ closed it
    pdf_pages,  \* len(pdf.pages) of the opened document
    results,    \* the results dict of extract_tables
    page_num,   \* enumerate index of the page loop (0-based)
    tables,     \* page.extract_tables() of the current page
    ti,         \* 1-based position of `for table in tables`
    exc,        \* str(e) of the exception in flight or handled, or NoExc
    stdout,     \* the objects printed (json.dumps) to standard output
    exitcode,   \* process exit status, Running while the process runs
    detected    \* history: what extract_tables() returned on each page so far

vars == <<pc, argv, handle, closes, pdf_pages, results, page_num, tables, ti,
          exc, stdout, exitcode, detected>>

(***************************************************************************)
(* Bounds                                                                  *)
(***************************************************************************)
MaxPages == 2

MaxTables == 2

MaxRows == 2

MaxCols == 2

(***************************************************************************)
(* Values                                                                  *)
(***************************************************************************)
Whitespace == {" "}

Chars == Whitespace \cup {"X", "Y"}

None == <<"None">>

NoExc == "NoExc"

Running == -1

UsageMessage == "PDF path required"

FaultMessages == {"open failed", "read failed"}

\* Raw cells page.extract_tables() may return: absent, empty, blank, a word
\* with leading and trailing whitespace.
RawCells == {None, <<>>, <<" ">>, <<" ", "X", " ">>}

SeqsUpTo(S, n) == UNION {[1..k -> S] : k \in 0..n}

RawRows == SeqsUpTo(RawCells, MaxCols)

\* Raw tables of the documents of the whole-program specification: a table
\* whose rows are all empty, a table with one non-empty row, and a table with
\* a header row, an empty row and a data row.
DocTables ==
    { << <<None, <<" ">>>>, <<>> >>,
      << <<None, None>>, <<<<"X">>, <<" ", "Y", " ">>>> >>,
      << <<<<" ", "X">>, <<"Y", " ">>>>, <<<<>>, None>>, <<<<"Y">>, None>> >> }

PageTables == SeqsUpTo(DocTables, MaxTables)

(***************************************************************************)
(* str.strip(), truthiness, any()                                          *)
(***************************************************************************)
RECURSIVE LStrip(_)
LStrip(s) ==
    IF s # <<>> /\ Head(s) \in Whitespace THEN LStrip(Tail(s)) ELSE s

RECURSIVE RStrip(_)
RStrip(s) ==
    IF s # <<>> /\ s[Len(s)] \in Whitespace
    THEN RStrip(SubSeq(s, 1, Len(s) - 1))
    ELSE s

Strip(s) == RStrip(LStrip(s))

Truthy(cell) == cell # None /\ cell # <<>>

\* faulty variant: the present cell is kept as it is, strip() forgotten
CleanCell_NoStrip(cell) == IF cell # None /\ cell # <<>> THEN cell ELSE <<>>

CleanCell(cell) == IF Truthy(cell) THEN Strip(cell) ELSE <<>>

CleanRow(row) == [j \in 1..Len(row) |-> CleanCell(row[j])]

\* faulty variant: `if cleaned_row:` in place of `if any(cleaned_row):`
any_NonEmptyRow(cleaned_row) == Len(cleaned_row) > 0

any(cleaned_row) == \E j \in 1..Len(cleaned_row) : cleaned_row[j] # <<>>

CleanedRows(table) ==
    SelectSeq([k \in 1..Len(table) |-> CleanRow(table[k])], any)

\* faulty variant: rows is cleaned_rows[1:] also for a single retained row
TableRecord_AlwaysTail(pn, cleaned_rows) ==
    [page    |-> pn + 1,
     headers |-> cleaned_rows[1],
     rows    |-> Tail(cleaned_rows)]

\* faulty variant: a single retained row becomes rows itself, not its one element
TableRecord_FlatRow(pn, cleaned_rows) ==
    [page    |-> pn + 1,
     headers |-> cleaned_rows[1],
     rows    |-> IF Len(cleaned_rows) > 1 THEN Tail(cleaned_rows)
                 ELSE cleaned_rows[1]]

TableRecord(pn, cleaned_rows) ==
    [page    |-> pn + 1,
     headers |-> cleaned_rows[1],
     rows    |-> IF Len(cleaned_rows) > 1 THEN Tail(cleaned_rows)
                 ELSE cleaned_rows]

\* faulty variant: the record is inserted at the front of results["tables"]
AppendTable_Prepend(acc, pn, table) ==
    IF SelectSeq([k \in 1..Len(table) |-> CleanRow(table[k])], any) # <<>>
    THEN <<TableRecord(pn, SelectSeq([k \in 1..Len(table) |-> CleanRow(table[k])], any))>> \o acc
    ELSE acc

AppendTable(acc, pn, table) ==
    IF CleanedRows(table) # <<>>
    THEN Append(acc, TableRecord(pn, CleanedRows(table)))
    ELSE acc

InitResults == [tables |-> <<>>, has_tables |-> FALSE, page_count |-> 0]

(***************************************************************************)
(* The script                                                              *)
(***************************************************************************)
Init ==
    /\ pc = "main"
    /\ argv \in {<<"pdfTableExtractor.py">>,
                 <<"pdfTableExtractor.py", "doc.pdf">>}
    /\ handle = "none"
    /\ closes = 0
    /\ pdf_pages = 0
    /\ results = InitResults
    /\ page_num = 0
    /\ tables = <<>>
    /\ ti = 1
    /\ exc = NoExc
    /\ stdout = <<>>
    /\ exitcode = Running
    /\ detected = <<>>

\* faulty variant: the error is printed but sys.exit(1) is missing
UsageError_NoExit ==
    /\ pc = "main"
    /\ Len(argv) < 2
    /\ stdout' = Append(stdout, [error |-> UsageMessage])
    /\ pc' = "open"
    /\ UNCHANGED <<argv, handle, closes, pdf_pages, results, page_num,
                   tables, ti, exc, exitcode, detected>>

\* if len(sys.argv) < 2: print error; sys.exit(1)
UsageError ==
    /\ pc = "main"
    /\ Len(argv) < 2
    /\ stdout' = Append(stdout, [error |-> UsageMessage])
    /\ exitcode' = 1
    /\ pc' = "exited"
    /\ UNCHANGED <<argv, handle, closes, pdf_pages, results, page_num,
                   tables, ti, exc, detected>>

\* try: extract_tables(sys.argv[1]) -- entry, results initialised
CallExtract ==
    /\ pc = "main"
    /\ Len(argv) >= 2
    /\ results' = InitResults
    /\ pc' = "open"
    /\ UNCHANGED <<argv, handle, closes, pdf_pages, page_num, tables, ti,
                   exc, stdout, exitcode, detected>>

\* with pdfplumber.open(pdf_path) as pdf: the open succeeds
OpenOk ==
    /\ pc = "open"
    /\ \E n \in 0..MaxPages : pdf_pages' = n
    /\ handle' = "open"
    /\ pc' = "count"
    /\ UNCHANGED <<argv, closes, results, page_num, tables, ti, exc, stdout,
                   exitcode, detected>>

\* pdfplumber.open raises: no handle, the with body and __exit__ do not run
OpenFault ==
    /\ pc = "open"
    /\ \E m \in FaultMessages : exc' = m
    /\ pc' = "except"
    /\ UNCHANGED <<argv, handle, closes, pdf_pages, results, page_num,
                   tables, ti, stdout, exitcode, detected>>

\* results["page_count"] = len(pdf.pages); the page loop starts
CountPages ==
    /\ pc = "count"
    /\ results' = [results EXCEPT !.page_count = pdf_pages]
    /\ page_num' = 0
    /\ pc' = "page"
    /\ UNCHANGED <<argv, handle, closes, pdf_pages, tables, ti, exc, stdout,
                   exitcode, detected>>

\* len(pdf.pages) raises inside the with block
CountFault ==
    /\ pc = "count"
    /\ \E m \in FaultMessages : exc' = m
    /\ pc' = "exit_with"
    /\ UNCHANGED <<argv, handle, closes, pdf_pages, results, page_num,
                   tables, ti, stdout, exitcode, detected>>

\* faulty variant: has_tables is set after every detection, `if tables:` missing
DetectTables_NoGuard ==
    /\ pc = "page"
    /\ page_num < pdf_pages
    /\ \E ts \in PageTables :
          /\ tables' = ts
          /\ detected' = Append(detected, ts)
          /\ results' = [results EXCEPT !.has_tables = TRUE]
          /\ IF ts # <<>>
             THEN /\ ti' = 1
                  /\ pc' = "table"
                  /\ UNCHANGED page_num
             ELSE /\ page_num' = page_num + 1
                  /\ UNCHANGED <<ti, pc>>
    /\ UNCHANGED <<argv, handle, closes, pdf_pages, exc, stdout, exitcode>>

\* faulty variant: results["has_tables"] = True is missing
DetectTables_NoFlag ==
    /\ pc = "page"
    /\ page_num < pdf_pages
    /\ \E ts \in PageTables :
          /\ tables' = ts
          /\ detected' = Append(detected, ts)
          /\ IF ts # <<>>
             THEN /\ ti' = 1
                  /\ pc' = "table"
                  /\ UNCHANGED page_num
             ELSE /\ page_num' = page_num + 1
                  /\ UNCHANGED <<ti, pc>>
    /\ UNCHANGED <<argv, handle, closes, pdf_pages, results, exc, stdout,
                   exitcode>>

\* tables = page.extract_tables(); if tables: results["has_tables"] = True
DetectTables ==
    /\ pc = "page"
    /\ page_num < pdf_pages
    /\ \E ts \in PageTables :
          /\ tables' = ts
          /\ detected' = Append(detected, ts)
          /\ IF ts # <<>>
             THEN /\ results' = [results EXCEPT !.has_tables = TRUE]
                  /\ ti' = 1
                  /\ pc' = "table"
                  /\ UNCHANGED page_num
             ELSE /\ page_num' = page_num + 1
                  /\ UNCHANGED <<results, ti, pc>>
    /\ UNCHANGED <<argv, handle, closes, pdf_pages, exc, stdout, exitcode>>

\* faulty variant: no scoped handle, the fault leaves extract_tables without close
DetectFault_NoClose ==
    /\ pc = "page"
    /\ page_num < pdf_pages
    /\ \E m \in FaultMessages : exc' = m
    /\ pc' = "except"
    /\ UNCHANGED <<argv, handle, closes, pdf_pages, results, page_num,
                   tables, ti, stdout, exitcode, detected>>

\* page.extract_tables() raises inside the with block
DetectFault ==
    /\ pc = "page"
    /\ page_num < pdf_pages
    /\ \E m \in FaultMessages : exc' = m
    /\ pc' = "exit_with"
    /\ UNCHANGED <<argv, handle, closes, pdf_pages, results, page_num,
                   tables, ti, stdout, exitcode, detected>>

\* one iteration of `for table in tables`
ProcessTable ==
    /\ pc = "table"
    /\ ti <= Len(tables)
    /\ results' = [results EXCEPT
                     !.tables = AppendTable(@, page_num, tables[ti])]
    /\ IF ti = Len(tables)
       THEN /\ page_num' = page_num + 1
            /\ pc' = "page"
            /\ UNCHANGED ti
       ELSE /\ ti' = ti + 1
            /\ UNCHANGED <<page_num, pc>>
    /\ UNCHANGED <<argv, handle, closes, pdf_pages, tables, exc, stdout,
                   exitcode, detected>>

\* the page loop is exhausted: control leaves the with body
EndPages ==
    /\ pc = "page"
    /\ page_num >= pdf_pages
    /\ pc' = "exit_with"
    /\ UNCHANGED <<argv, handle, closes, pdf_pages, results, page_num,
                   tables, ti, exc, stdout, exitcode, detected>>

\* the context manager's __exit__: close the handle, re-raise if raised
ExitWith ==
    /\ pc = "exit_with"
    /\ handle' = "closed"
    /\ closes' = closes + 1
    /\ pc' = IF exc # NoExc THEN "except" ELSE "return"
    /\ UNCHANGED <<argv, pdf_pages, results, page_num, tables, ti, exc,
                   stdout, exitcode, detected>>

\* return results; print(json.dumps(result)); the script ends
PrintResult ==
    /\ pc = "return"
    /\ stdout' = Append(stdout, results)
    /\ exitcode' = 0
    /\ pc' = "exited"
    /\ UNCHANGED <<argv, handle, closes, pdf_pages, results, page_num,
                   tables, ti, exc, detected>>

\* faulty variant: the error is printed but sys.exit(1) is missing
HandleException_NoExit ==
    /\ pc = "except"
    /\ stdout' = Append(stdout, [error |-> exc])
    /\ exitcode' = 0
    /\ pc' = "exited"
    /\ UNCHANGED <<argv, handle, closes, pdf_pages, results, page_num,
                   tables, ti, exc, detected>>

\* except Exception as e: print(json.dumps({"error": str(e)})); sys.exit(1)
HandleException ==
    /\ pc = "except"
    /\ stdout' = Append(stdout, [error |-> exc])
    /\ exitcode' = 1
    /\ pc' = "exited"
    /\ UNCHANGED <<argv, handle, closes, pdf_pages, results, page_num,
                   tables, ti, exc, detected>>

Next ==
    \/ UsageError
    \/ CallExtract
    \/ OpenOk
    \/ OpenFault
    \/ CountPages
    \/ CountFault
    \/ DetectTables
    \/ DetectFault
    \/ ProcessTable
    \/ EndPages
    \/ ExitWith
    \/ PrintResult
    \/ HandleException

Spec == Init /\ [][Next]_vars

(***************************************************************************)
(* The cleaning of one raw table, over every raw table within the bounds:  *)
(* the script stands at the table loop of a one-page document whose page   *)
(* yielded the single raw table t.                                         *)
(***************************************************************************)
InitTable ==
    /\ pc = "table"
    /\ argv = <<"pdfTableExtractor.py", "doc.pdf">>
    /\ handle = "open"
    /\ closes = 0
    /\ pdf_pages = 1
    /\ results = [tables |-> <<>>, has_tables |-> TRUE, page_count |-> 1]
    /\ page_num = 0
    /\ \E k \in 0..MaxRows : \E t \in [1..k -> RawRows] :
          tables = <<t>> /\ detected = <<<<t>>>>
    /\ ti = 1
    /\ exc = NoExc
    /\ stdout = <<>>
    /\ exitcode = Running

NextTable == ProcessTable

SpecTable == InitTable /\ [][NextTable]_vars

(***************************************************************************)
(* Vocabulary of the properties, stated without the operators above        *)
(***************************************************************************)
IsString(c) == c \in Seq(Chars)

\* out is raw without its leading and trailing whitespace
IsStripOf(out, raw) ==
    \E i \in 1..(Len(raw) + 1) : \E j \in 0..Len(raw) :
        /\ out = SubSeq(raw, i, j)
        /\ \A k \in 1..(i - 1) : raw[k] \in Whitespace
        /\ \A k \in (j + 1)..Len(raw) : raw[k] \in Whitespace
        /\ out # <<>> => out[1] \notin Whitespace /\ out[Len(out)] \notin Whitespace

CellCleaned(raw, out) ==
    IF raw = None \/ raw = <<>> THEN out = <<>> ELSE IsStripOf(out, raw)

RowCleaned(rawrow, outrow) ==
    /\ Len(outrow) = Len(rawrow)
    /\ \A j \in 1..Len(rawrow) : CellCleaned(rawrow[j], outrow[j])

HasContent(outrow) == \E j \in 1..Len(outrow) : Len(outrow[j]) > 0

\* the raw rows of table t with a cell that has a non-whitespace character
RetainedIdx(t) ==
    {k \in 1..Len(t) :
        \E j \in 1..Len(t[k]) :
            /\ t[k][j] # None
            /\ \E i \in 1..Len(t[k][j]) : t[k][j][i] \notin Whitespace}

\* the i-th smallest element of the set of numbers S
Nth(S, i) == CHOOSE k \in S : Cardinality({m \in S : m < k}) = i - 1

RowsOf(rec) == {rec.headers} \cup {rec.rows[i] : i \in 1..Len(rec.rows)}

\* rec is the record of raw table t: headers then rows are the retained rows
RecordOf(rec, t) ==
    LET S == RetainedIdx(t)
        n == Cardinality(S)
    IN  /\ n >= 1
        /\ RowCleaned(t[Nth(S, 1)], rec.headers)
        /\ IF n > 1
           THEN /\ Len(rec.rows) = n - 1
                /\ \A i \in 1..(n - 1) : RowCleaned(t[Nth(S, i + 1)], rec.rows[i])
           ELSE rec.rows = <<rec.headers>>

Succeeded == pc = "exited" /\ exc = NoExc /\ Len(argv) >= 2

XY == << <<"X">>, <<"Y">> >>

(***************************************************************************)
(* C1  With a path argument, a run in which a fault was raised ends with   *)
(* stdout holding exactly the one object {"error": message} and exit       *)
(* status 1; a run without fault ends with exactly one object with the     *)
(* fields tables, has_tables, page_count and exit status 0; nothing is     *)
(* written before the process ends.                                        *)
(***************************************************************************)
C1_AllOrNothing ==
    Len(argv) >= 2 =>
        /\ pc # "exited" => stdout = <<>> /\ exitcode = Running
        /\ pc = "exited" /\ exc # NoExc =>
              /\ stdout = <<[error |-> exc]>>
              /\ exc \in FaultMessages
              /\ exitcode = 1
        /\ pc = "exited" /\ exc = NoExc =>
              /\ Len(stdout) = 1
              /\ DOMAIN stdout[1] = {"tables", "has_tables", "page_count"}
              /\ exitcode = 0

\* a fault on a later page, after a TableRecord was accumulated
C1_Witness ==
    /\ pc = "exited"
    /\ exc # NoExc
    /\ page_num >= 1
    /\ results.tables # <<>>
    /\ stdout = <<[error |-> exc]>>

(***************************************************************************)
(* C2  Once acquired, the handle is closed exactly once by the time        *)
(* extract_tables has returned or raised; it is never open when output     *)
(* has been written, never closed twice, and never closed when it was not  *)
(* acquired.                                                               *)
(***************************************************************************)
C2_HandleReleased ==
    /\ closes <= 1
    /\ handle = "none" => closes = 0
    /\ handle = "closed" => closes = 1
    /\ pc \in {"return", "except", "exited"} => handle # "open"
    /\ stdout # <<>> => handle # "open"
    /\ pc \in {"count", "page", "table", "exit_with"} => handle = "open"

\* a fault of table detection in the middle of the page loop
C2_Witness ==
    /\ pc = "except"
    /\ page_num >= 1
    /\ handle = "closed"
    /\ closes = 1

(***************************************************************************)
(* C3  Every cell of headers and of every row of a TableRecord is a string *)
(* and never None, and every such row is a raw row of the table with the   *)
(* same number of cells, cell by cell: "" for an absent or empty cell, the *)
(* value without leading and trailing whitespace otherwise.                *)
(***************************************************************************)
C3_CellsCleaned ==
    \A r \in 1..Len(results.tables) :
        \A row \in RowsOf(results.tables[r]) :
            /\ \A j \in 1..Len(row) : IsString(row[j]) /\ row[j] # None
            /\ \E k \in 1..Len(tables[1]) : RowCleaned(tables[1][k], row)

\* a retained row with an absent cell and a cell with whitespace around it
C3_Witness ==
    /\ pc = "page"
    /\ tables[1] = << <<None, <<" ", "X", " ">>>> >>
    /\ Len(results.tables) = 1
    /\ results.tables[1].headers = << <<>>, <<"X">> >>

(***************************************************************************)
(* C4  headers and every row of rows of every TableRecord contain at least *)
(* one non-empty string.                                                   *)
(***************************************************************************)
C4_NoEmptyRow ==
    \A r \in 1..Len(results.tables) :
        \A row \in RowsOf(results.tables[r]) : HasContent(row)

\* a zero-cell row is dropped and the one retained row forms the record
C4_Witness ==
    /\ pc = "page"
    /\ tables[1] = << <<>>, <<<<" ">>, <<" ", "X", " ">>>> >>
    /\ Len(results.tables) = 1
    /\ results.tables[1].headers = << <<>>, <<"X">> >>
    /\ results.tables[1].rows = << << <<>>, <<"X">> >> >>

(***************************************************************************)
(* C5  A raw table with n >= 1 retained rows appends exactly one           *)
(* TableRecord whose headers is the first retained row; rows is the other  *)
(* n-1 retained rows in order when n > 1, and the one-element sequence     *)
(* holding headers when n = 1.  A raw table with n = 0 appends nothing.    *)
(***************************************************************************)
C5_RecordShape ==
    pc = "page" =>
        IF RetainedIdx(tables[1]) = {}
        THEN results.tables = <<>>
        ELSE /\ Len(results.tables) = 1
             /\ RecordOf(results.tables[1], tables[1])

\* the degenerate case: two raw rows, one of them retained
C5_Witness ==
    /\ pc = "page"
    /\ Len(tables[1]) = 2
    /\ Cardinality(RetainedIdx(tables[1])) = 1
    /\ Len(results.tables) = 1
    /\ results.tables[1].rows = <<results.tables[1].headers>>

(***************************************************************************)
(* C7  A successful run in which detection yielded no raw table on any     *)
(* page prints has_tables = false, tables = [] and page_count equal to     *)
(* the number of pages of the document.                                    *)
(***************************************************************************)
C7_NoTables ==
    Succeeded /\ (\A p \in 1..Len(detected) : detected[p] = <<>>) =>
        /\ Len(detected) = pdf_pages
        /\ stdout[1].has_tables = FALSE
        /\ stdout[1].tables = <<>>
        /\ stdout[1].page_count = pdf_pages

C7_Witness ==
    /\ Succeeded
    /\ pdf_pages = 2
    /\ detected = << <<>>, <<>> >>
    /\ stdout = <<[tables |-> <<>>, has_tables |-> FALSE, page_count |-> 2]>>

(***************************************************************************)
(* C8  Without a path argument the run ends with stdout exactly            *)
(* {"error": "PDF path required"} and exit status 1, and no document is    *)
(* opened and no step of the extraction runs.                              *)
(***************************************************************************)
C8_UsageError ==
    Len(argv) < 2 =>
        /\ pc \in {"main", "exited"}
        /\ handle = "none" /\ closes = 0
        /\ results = InitResults /\ detected = <<>> /\ exc = NoExc
        /\ pc = "main" => stdout = <<>> /\ exitcode = Running
        /\ pc = "exited" => stdout = <<[error |-> UsageMessage]>> /\ exitcode = 1

C8_Witness ==
    /\ Len(argv) < 2
    /\ pc = "exited"
    /\ stdout = <<[error |-> UsageMessage]>>
    /\ exitcode = 1

(***************************************************************************)
(* C9  A successful run prints has_tables = true exactly when detection    *)
(* yielded at least one raw table on some page, whether or not a           *)
(* TableRecord was emitted; and at every point of the scan a non-empty     *)
(* tables implies has_tables.                                              *)
(***************************************************************************)
C9_HasTables ==
    /\ results.tables # <<>> => results.has_tables
    /\ Succeeded =>
          stdout[1].has_tables = (\E p \in 1..Len(detected) : detected[p] # <<>>)

\* every detected table is skipped: has_tables = true with tables = []
C9_Witness ==
    /\ Succeeded
    /\ \E p \in 1..Len(detected) : detected[p] # <<>>
    /\ stdout[1].has_tables = TRUE
    /\ stdout[1].tables = <<>>

(***************************************************************************)
(* C10  The TableRecords are, in order, the records of the raw tables      *)
(* with a retained row, page by page and within a page in the order        *)
(* detection returned them: page is the 1-based index of the page, is      *)
(* non-decreasing along tables and lies in 1..page_count, and headers      *)
(* followed by rows are the retained raw rows in their original order.     *)
(***************************************************************************)
\* the raw tables (page, position) the table loop has gone through
Processed ==
    {pk \in (1..Len(detected)) \X (1..MaxTables + 1) :
        /\ pk[2] <= Len(detected[pk[1]])
        /\ \/ pk[1] <= page_num
           \/ pc = "table" /\ pk[1] = page_num + 1 /\ pk[2] < ti}

Emitting == {pk \in Processed : RetainedIdx(detected[pk[1]][pk[2]]) # {}}

Before(a, b) == a[1] < b[1] \/ (a[1] = b[1] /\ a[2] < b[2])

\* the 1-based position of pair a among the pairs of S, in page order and
\* within a page in detection order
Rank(S, a) == Cardinality({b \in S : Before(b, a)}) + 1

C10_OrderPreserved ==
    LET E == Emitting
    IN  /\ Len(results.tables) = Cardinality(E)
        /\ \A pk \in E :
              LET rec == results.tables[Rank(E, pk)]
              IN  /\ rec.page = pk[1]
                  /\ rec.page \in 1..results.page_count
                  /\ RecordOf(rec, detected[pk[1]][pk[2]])
        /\ \A i \in 1..Len(results.tables) : \A j \in i..Len(results.tables) :
              results.tables[i].page <= results.tables[j].page

\* two records of page 1 in detection order, then a record of page 2
C10_Witness ==
    /\ Succeeded
    /\ Len(results.tables) = 3
    /\ results.tables[1].page = 1
    /\ results.tables[2].page = 1
    /\ results.tables[3].page = 2
    /\ results.tables[1] # results.tables[2]
    /\ Len(results.tables[3].rows) = 1 /\ results.tables[3].headers # results.tables[3].rows[1]

(***************************************************************************)
(* C6  As claimed: a detected table whose only non-empty row is ["X","Y"]  *)
(* yields a TableRecord with headers = ["X","Y"] and rows = ["X","Y"], the *)
(* flat sequence of the two strings.                                       *)
(***************************************************************************)
OnlyRowXY(t) ==
    LET S == RetainedIdx(t)
    IN  Cardinality(S) = 1 /\ \A k \in S : RowCleaned(t[k], XY)

C6_Original ==
    LET E == Emitting
    IN  \A pk \in E :
            OnlyRowXY(detected[pk[1]][pk[2]]) =>
                /\ Rank(E, pk) <= Len(results.tables)
                /\ results.tables[Rank(E, pk)].headers = XY
                /\ results.tables[Rank(E, pk)].rows = XY

(***************************************************************************)
(* C6  As amended: a detected table whose only non-empty row is ["X","Y"]  *)
(* yields a TableRecord with headers = ["X","Y"] and rows = [["X","Y"]],   *)
(* the one-element sequence whose element is the headers row.              *)
(***************************************************************************)
C6_Amended ==
    LET E == Emitting
    IN  \A pk \in E :
            OnlyRowXY(detected[pk[1]][pk[2]]) =>
                /\ Rank(E, pk) <= Len(results.tables)
                /\ results.tables[Rank(E, pk)].headers = XY
                /\ results.tables[Rank(E, pk)].rows = <<XY>>

\* the table of page 2 has the rows [None, None] and ["X", " Y "]
C6_Witness ==
    /\ Succeeded
    /\ detected = << <<>>, << << <<None, None>>, <<<<"X">>, <<" ", "Y", " ">>>> >> >> >>
    /\ stdout[1].tables = <<[page |-> 2, headers |-> XY, rows |-> <<XY>>]>>

====
